---- MODULE Spec2Model ----
(***************************************************************************)
(* Page-state guard (ensure_page), error classifier (handle_resolve_errors)*)
(* response envelope builder and validate_params of the DaVinci Resolve    *)
(* MCP utilities, modelled from src/src/utils.                             *)
(*                                                                         *)
(* Python values are modelled as follows.  A dict is a function from key   *)
(* strings to values, None is the string "<None>", a str that is built by  *)
(* an f-string or by + is the sequence of its non-empty fragments (so the  *)
(* empty string is << >> and concatenation is \o), an exception is a       *)
(* record of its class name and its message.                               *)
(***************************************************************************)
EXTENDS Integers, Sequences, FiniteSets, TLC

\* ------------------------------------------------------------------ bounds
\* number of guarded invocations issued in one run
MaxCalls == 2
\* number of parameters a validate_params decorator is given validators for
MaxParams == 2
\* number of positional arguments of a guarded call
MaxArgs == 2
\* number of callers that may have a decorated call in progress
NumThreads == 2

\* --------------------------------------------------------------- constants
None == "<None>"
EmptyDict == << >>

\* pages the host can be on in the model (a subset of get_valid_pages)
HostPages == {"edit", "fusion", "color"}
\* page_name arguments given to ensure_page
PageNames == {"fusion", "Fusion", "color"}

\* str.lower() on the strings of the model
Lower(s) ==
    CASE s = "Fusion" -> "fusion"
      [] s = "Color" -> "color"
      [] s = "Edit" -> "edit"
      [] s = "Auto" -> "auto"
      [] s = "AUTO" -> "auto"
      [] s = "On" -> "on"
      [] s = "Off" -> "off"
      [] OTHER -> s

\* --------------------------------------------------- response_formatter.py
\* dict.update(other)
Update(d, e) ==
    [k \in (DOMAIN d) \cup (DOMAIN e) |-> IF k \in DOMAIN e THEN e[k] ELSE d[k]]

\* truthiness of an Optional[str] error code
Truthy(x) == x # None /\ x # ""

success(message, data, extra) ==
    LET r0 == [success |-> TRUE, message |-> message]
        r1 == IF data # None THEN Update(r0, [data |-> data]) ELSE r0
    IN  Update(r1, extra)

error(message, error_code, details, extra) ==
    LET r0 == [success |-> FALSE, message |-> message]
        r1 == IF Truthy(error_code) THEN Update(r0, [error_code |-> error_code]) ELSE r0
        r2 == IF details # None THEN Update(r1, [details |-> details]) ELSE r1
    IN  Update(r2, extra)

\* -------------------------------------------------------- error_handler.py
\* direct base class of each exception class of the model; ValidationErrorV
\* is validation.ValidationError, ValidationError is the error_handler one
Base(cls) ==
    CASE cls = "ConnectionError" -> "ResolveError"
      [] cls = "ValidationError" -> "ResolveError"
      [] cls = "OperationError" -> "ResolveError"
      [] cls = "ResolveError" -> "Exception"
      [] cls = "ValidationErrorV" -> "Exception"
      [] cls = "RuntimeError" -> "Exception"
      [] cls = "Exception" -> "BaseException"
      [] cls = "KeyboardInterrupt" -> "BaseException"
      [] OTHER -> "object"

RECURSIVE IsInstance(_, _)
IsInstance(cls, base) ==
    IF cls = base THEN TRUE
    ELSE IF cls \in {"BaseException", "object"} THEN FALSE
    ELSE IsInstance(Base(cls), base)

ExcClasses == {"ConnectionError", "ValidationError", "OperationError", "ResolveError",
               "ValidationErrorV", "RuntimeError", "KeyboardInterrupt"}
ExcMessages == {<< >>, <<"boom">>}

\* outcomes of calling a Python function: it returns a value or raises
Return(v) == [kind |-> "return", val |-> v]
Raise(cls, msg) == [kind |-> "raise", cls |-> cls, msg |-> msg]
NoOutcome == [kind |-> "none"]

\* a handler that gives a bare ResolveError the operation clause
handle_resolve_errors_ResolveErrorAsOperation(o) ==
    IF o.kind # "raise" THEN o
    ELSE IF IsInstance(o.cls, "ConnectionError")
         THEN Return(error(o.msg, "CONNECTION_ERROR", None, EmptyDict))
    ELSE IF IsInstance(o.cls, "ValidationError")
         THEN Return(error(o.msg, "VALIDATION_ERROR", None, EmptyDict))
    ELSE IF IsInstance(o.cls, "ResolveError")
         THEN Return(error(o.msg, "OPERATION_ERROR", None, EmptyDict))
    ELSE IF IsInstance(o.cls, "Exception")
         THEN Return(error(<<"Unexpected error: ">> \o o.msg, "INTERNAL_ERROR", None, EmptyDict))
    ELSE o

\* handle_resolve_errors(func)(...) given what func does
handle_resolve_errors(o) ==
    IF o.kind # "raise" THEN o
    ELSE IF IsInstance(o.cls, "ConnectionError")
         THEN Return(error(o.msg, "CONNECTION_ERROR", None, EmptyDict))
    ELSE IF IsInstance(o.cls, "ValidationError")
         THEN Return(error(o.msg, "VALIDATION_ERROR", None, EmptyDict))
    ELSE IF IsInstance(o.cls, "OperationError")
         THEN Return(error(o.msg, "OPERATION_ERROR", None, EmptyDict))
    ELSE IF IsInstance(o.cls, "Exception")
         THEN Return(error(<<"Unexpected error: ">> \o o.msg, "INTERNAL_ERROR", None, EmptyDict))
    ELSE o

\* ----------------------------------------------------------- validation.py
\* what one validator does with its parameter: "absent" is a validator whose
\* parameter name is not among the bound arguments
ValidatorOutcomes == {"absent", "ok", "invalid", "crash"}

\* validate_params(**validators)(func)(...): checks is the sequence of the
\* validators' outcomes in the decorator's order, o is what func does
RECURSIVE validate_params(_, _)
validate_params(checks, o) ==
    IF checks = << >> THEN o
    ELSE IF Head(checks) = "invalid"
         THEN Return([error |-> <<"Invalid ", "param", ": ", "must be valid">>])
    ELSE IF Head(checks) = "crash"
         THEN Return([error |-> <<"Validation error for ", "param", ": ", "boom">>])
    ELSE validate_params(Tail(checks), o)

\* argument values handed to the validators: an int, a float that is no
\* finite number (nan, inf, -inf) or a str
IntVal(n) == [type |-> "int", n |-> n]
FloatVal(f) == [type |-> "float", f |-> f]
StrVal(s) == [type |-> "str", s |-> s]
ArgValues ==
    {IntVal(n) : n \in {-1, 0, 1, 2}} \cup {FloatVal(f) : f \in {"nan", "inf"}}
    \cup {StrVal(s) : s \in {"", "  ", "Auto", "auto", "AUTO"}}

\* value < bound and value > bound as Python computes them for an int bound:
\* every comparison with nan is False
Below(value, bound) ==
    IF value.type = "int" THEN value.n < bound ELSE value.f = "-inf"
Above(value, bound) ==
    IF value.type = "int" THEN value.n > bound ELSE value.f = "inf"

\* str(n) for the integers of the model
Str(n) ==
    CASE n = -1 -> "-1"
      [] n = 0 -> "0"
      [] n = 1 -> "1"
      [] n = 2 -> "2"
      [] OTHER -> "n"

\* str.strip() on the strings of the model
Strip(s) == IF s = "  " THEN "" ELSE s

\* validate_range(value, min_val, max_val, name), lines 17-34
validate_range(value, min_val, max_val, name) ==
    IF value.type \notin {"int", "float"}
    THEN Raise("ValidationErrorV", <<name, " must be a number, got ", value.type>>)
    ELSE IF Below(value, min_val) \/ Above(value, max_val)
    THEN Raise("ValidationErrorV", <<name, " must be between ", Str(min_val), " and ",
                                     Str(max_val), ", got ",
                                     IF value.type = "int" THEN Str(value.n) ELSE value.f>>)
    ELSE Return(None)

\* a validate_choice that hands back the value as it was given
validate_choice_ReturnsInput(value, choices, name, case_sensitive) ==
    LET Matches(i) == IF case_sensitive THEN choices[i] = value.s
                      ELSE Lower(choices[i]) = Lower(value.s)
        hits == {i \in 1..Len(choices) : Matches(i)}
    IN  IF value.type # "str"
        THEN Raise("ValidationErrorV", <<name, " must be a string, got ", value.type>>)
        ELSE IF hits = {}
        THEN Raise("ValidationErrorV", <<name, " must be one of [">> \o choices
                                        \o <<"], got '", value.s, "'">>)
        ELSE Return(value.s)

\* validate_choice(value, choices, name, case_sensitive), lines 36-69; the
\* value returned is the element of choices that matched
validate_choice(value, choices, name, case_sensitive) ==
    LET Matches(i) == IF case_sensitive THEN choices[i] = value.s
                      ELSE Lower(choices[i]) = Lower(value.s)
        hits == {i \in 1..Len(choices) : Matches(i)}
        first == CHOOSE i \in hits : \A j \in hits : i <= j
    IN  IF value.type # "str"
        THEN Raise("ValidationErrorV", <<name, " must be a string, got ", value.type>>)
        ELSE IF hits = {}
        THEN Raise("ValidationErrorV", <<name, " must be one of [">> \o choices
                                        \o <<"], got '", value.s, "'">>)
        ELSE Return(IF case_sensitive THEN value.s ELSE choices[first])

\* validate_positive_integer(value, name), lines 166-181
validate_positive_integer(value, name) ==
    IF value.type # "int"
    THEN Raise("ValidationErrorV", <<name, " must be an integer, got ", value.type>>)
    ELSE IF value.n <= 0
    THEN Raise("ValidationErrorV", <<name, " must be positive, got ", Str(value.n)>>)
    ELSE Return(None)

\* validate_non_empty_string(value, name), lines 183-198
validate_non_empty_string(value, name) ==
    IF value.type # "str"
    THEN Raise("ValidationErrorV", <<name, " must be a string, got ", value.type>>)
    ELSE IF Strip(value.s) = ""
    THEN Raise("ValidationErrorV", <<name, " cannot be empty">>)
    ELSE Return(None)

\* the validators a function may call on an argument
ValidatorNames == {"validate_range", "validate_choice", "validate_positive_integer",
                   "validate_non_empty_string"}

\* what the call of validator v on the value x does
ValidatorCall(v, x) ==
    CASE v = "validate_range" -> validate_range(x, 0, 1, "value")
      [] v = "validate_choice" -> validate_choice(x, <<"Auto", "On", "Off">>, "value", FALSE)
      [] v = "validate_positive_integer" -> validate_positive_integer(x, "value")
      [] OTHER -> validate_non_empty_string(x, "value")

\* --------------------------------------------------------- page_manager.py
\* positional arguments are "handle" (an object with GetCurrentPage) or
\* "other"; the keyword argument resolve is "handle" or None
ArgKinds == {"handle", "other"}

_extract_resolve_object(args, kwResolve) ==
    IF kwResolve # None THEN kwResolve
    ELSE IF Len(args) > 0 /\ args[1] = "handle" THEN args[1]
    ELSE IF Len(args) > 1 /\ args[2] = "handle" THEN args[2]
    ELSE None

\* the host's OpenPage(p): it returns True and the page is p, it returns
\* False and the page stays, or it raises and the page stays
OpenPageOutcomes == {"ok", "fail", "raise"}
\* the host's GetCurrentPage(): it returns the active page, it raises, or it
\* returns a value that is no string
GetPageOutcomes == {"ok", "raise", "nonstr"}

\* ------------------------------------------------------------------- state
Threads == 1..NumThreads

RECURSIVE SeqsUpTo(_, _)
SeqsUpTo(S, n) ==
    IF n = 0 THEN {<< >>}
    ELSE LET shorter == SeqsUpTo(S, n - 1)
         IN  shorter \cup {Append(q, x) : q \in {r \in shorter : Len(r) = n - 1}, x \in S}

ArgSeqs == SeqsUpTo(ArgKinds, MaxArgs)
CheckSeqs == SeqsUpTo(ValidatorOutcomes, MaxParams)

\* what the function under a decorator may do when it is called
FuncOutcomes ==
    {Return(success(<<"ok">>, None, EmptyDict)),
     Return(error(<<"failed">>, None, None, EmptyDict))}
    \cup {Raise(c, m) : c \in ExcClasses, m \in ExcMessages}

\* what the function under ensure_page may do (the classes that the guard
\* and a handler below it tell apart)
GuardedFuncOutcomes ==
    {Return(success(<<"ok">>, None, EmptyDict)),
     Return(error(<<"failed">>, None, None, EmptyDict)),
     Raise("RuntimeError", <<"boom">>),
     Raise("OperationError", <<"boom">>),
     Raise("KeyboardInterrupt", <<"boom">>)}

\* the caller has invoked no catalog operation
NoOp == [name |-> None, arg |-> None]

NoPrev == [valid |-> FALSE, startPage |-> None, page_name |-> None, opens |-> << >>]

VARIABLES
    page,           \* the host's active page
    pc,             \* per caller: where its decorated call stands
    kind,           \* per caller: "guard", "handler" or "validate"
    page_name,      \* per caller: the argument of ensure_page
    resolve,        \* per caller: the local resolve
    read,           \* per caller: how the GetCurrentPage call ended
    handled,        \* per caller: ensure_page wraps handle_resolve_errors(func)
    current_page,   \* per caller: what GetCurrentPage returned
    page_switched,  \* per caller: the local page_switched
    body,           \* per caller: what the innermost function did
    checks,         \* per caller: the validators' outcomes (validate_params)
    result,         \* per caller: what the outermost wrapper returned or raised
    path,           \* per caller: the exit the wrapper took
    opens,          \* per caller: the OpenPage calls the guard issued
    calls,          \* per caller: how often the wrapped function was invoked
    startPage,      \* per caller: the host's page when the call began
    ncalls,         \* decorated calls begun so far
    prev,           \* summary of the guarded call that completed last, if no
                    \* catalog operation has run since
    handle,         \* the resolve object create_server gave the register_* functions
    reconnected,    \* reconnect_to_resolve has reported success
    nreg,           \* how many register_* calls of create_server have run
    op,             \* per caller: the catalog operation it invoked and its argument
    trace           \* per caller: the host methods the operation called, in order

vars == <<page, pc, kind, page_name, resolve, read, handled, current_page, page_switched, body,
          checks, result, path, opens, calls, startPage, ncalls, prev,
          handle, reconnected, nreg, op, trace>>

\* what the server holds, and what a catalog call adds to a caller's frame
serverVars == <<handle, reconnected, nreg>>
callVars == <<op, trace>>

Init ==
    /\ page \in HostPages
    /\ pc = [t \in Threads |-> "idle"]
    /\ kind = [t \in Threads |-> None]
    /\ page_name = [t \in Threads |-> None]
    /\ resolve = [t \in Threads |-> None]
    /\ read = [t \in Threads |-> None]
    /\ handled = [t \in Threads |-> FALSE]
    /\ current_page = [t \in Threads |-> None]
    /\ page_switched = [t \in Threads |-> FALSE]
    /\ body = [t \in Threads |-> NoOutcome]
    /\ checks = [t \in Threads |-> << >>]
    /\ result = [t \in Threads |-> NoOutcome]
    /\ path = [t \in Threads |-> None]
    /\ opens = [t \in Threads |-> << >>]
    /\ calls = [t \in Threads |-> 0]
    /\ startPage = [t \in Threads |-> None]
    /\ ncalls = 0
    /\ prev = NoPrev
    /\ handle \in {None, "handle"}
    /\ reconnected = FALSE
    /\ nreg = 0
    /\ op = [t \in Threads |-> NoOp]
    /\ trace = [t \in Threads |-> << >>]

\* ----------------------------------------------------------- main_server.py
\* the register_* functions create_server calls, in its order, that are part
\* of the sources (timeline, media, color and delivery operations are not)
Modules == <<"core_operations", "project_operations", "fusion_operations",
             "fairlight_operations", "cache_management", "keyframe_control",
             "object_inspection">>

\* the names register_<module> binds, one per @mcp.tool() (the function's
\* name) or @mcp.resource(path) (the path), in the order of the file
Registrations(mod) ==
    CASE mod = "core_operations" ->
           <<"resolve://version", "resolve://current-page", "switch_page",
             "get_product_info", "resolve://connection/status", "reconnect_to_resolve">>
      [] mod = "project_operations" ->
           <<"resolve://projects", "resolve://current-project", "open_project_tool",
             "create_project_tool", "save_project_tool", "close_project_tool">>
      [] mod = "fusion_operations" ->
           <<"resolve://fusion/composition", "resolve://fusion/nodes", "add_fusion_node",
             "connect_fusion_nodes", "delete_fusion_node", "add_transform_node",
             "add_corner_position_node", "add_merge_node", "add_chroma_keyer",
             "add_polygon_mask", "add_color_corrector", "add_blur_effect", "add_text_node",
             "add_3d_scene", "add_3d_camera", "add_particle_emitter",
             "add_particle_renderer", "add_background_generator", "add_time_speed_effect",
             "resolve://fusion/available-nodes", "create_macro", "save_fusion_composition",
             "load_fusion_composition", "create_fusion_clip", "add_fusion_node",
             "connect_fusion_nodes", "set_fusion_node_parameter", "create_fusion_text",
             "create_fusion_transform", "render_fusion_composition">>
      [] mod = "fairlight_operations" ->
           <<"resolve://fairlight/status", "add_audio_track", "set_audio_levels",
             "apply_audio_effect", "resolve://fairlight/audio-meters", "auto_sync_audio",
             "export_audio_mixdown", "resolve://fairlight/available-effects">>
      [] mod = "cache_management" ->
           <<"resolve://cache/settings", "set_cache_mode", "set_optimized_media_mode",
             "set_proxy_mode", "set_proxy_quality", "generate_optimized_media",
             "delete_optimized_media", "clear_render_cache", "resolve://cache/disk-usage">>
      [] mod = "keyframe_control" ->
           <<"resolve://timeline-item/{timeline_item_id}/keyframes/{property_name}",
             "add_keyframe", "modify_keyframe", "delete_keyframe",
             "set_keyframe_interpolation", "enable_keyframes">>
      [] OTHER ->
           <<"resolve://inspect/resolve", "resolve://inspect/project-manager",
             "resolve://inspect/current-project", "resolve://inspect/media-pool",
             "resolve://inspect/current-timeline", "inspect_custom_object",
             "get_object_methods", "get_object_properties", "test_object_method",
             "generate_api_usage_example", "resolve://api/documentation">>

\* the registrations made by the first n register_* calls, in order
RECURSIVE Catalog(_)
Catalog(n) == IF n = 0 THEN << >> ELSE Catalog(n - 1) \o Registrations(Modules[n])

\* how many registrations of the catalog c bind the name nm
Bindings(c, nm) == Cardinality({i \in 1..Len(c) : c[i] = nm})

\* create_server has registered every module: the server takes calls
Started == nreg = Len(Modules)

\* create_server, lines 102-134: the next register_* call
Register ==
    /\ nreg < Len(Modules)
    /\ nreg' = nreg + 1
    /\ UNCHANGED <<page, pc, kind, page_name, resolve, read, handled, current_page,
                   page_switched, body, checks, result, path, opens, calls, startPage,
                   ncalls, prev, handle, reconnected, callVars>>

\* the function ensure_page wraps, given what the innermost function did
WrappedOutcome(t) == IF handled[t] THEN handle_resolve_errors(body[t]) ELSE body[t]

\* the except clause of the guard (lines 62-65)
PageManagementError(msg) ==
    Return([error |-> <<"Error in page management for ", "func", ": ">> \o msg])

\* a guard that goes on without a handle
HandleFound_Unchecked(r) == TRUE

\* a guard that compares the page names as they are written
SamePage_CaseSensitive(a, b) == a = b

\* a guard that takes any OpenPage result that is not an exception as success
SwitchSucceeded_Unchecked(r) == TRUE

\* line 30, the negation of "not resolve"
HandleFound(r) == r # None

\* line 41, the negation of the comparison
SamePage(a, b) == Lower(a) = Lower(b)

\* line 43, the negation of "not result"
SwitchSucceeded(r) == r = "ok"

\* the call the server makes of an operation that fusion_operations_clean.py
\* registers (lines 32-34, 61-63, 81-83, ...): the decorator is
\* ensure_page("fusion") laid directly on the function, the arguments are the
\* tool's own (node_type, node_name, ...), none of them the handle, which the
\* function takes from the closure of register_fusion_operations
RegisteredCall(pn, args, kw, h) ==
    /\ pn = "fusion" /\ kw = None /\ ~h
    /\ \A i \in 1..Len(args) : args[i] = "other"

\* ensure_page wrapper, lines 29-38: find the handle and read the page
Invoke(t) ==
    /\ pc[t] = "idle"
    /\ Started /\ ncalls < MaxCalls
    /\ UNCHANGED <<serverVars, trace>>
    /\ \E pn \in PageNames, args \in ArgSeqs, kw \in {None, "handle"},
          h \in BOOLEAN, rd \in GetPageOutcomes, reg \in BOOLEAN :
         LET found == _extract_resolve_object(args, kw) IN
         /\ reg => RegisteredCall(pn, args, kw, h)
         /\ op' = [op EXCEPT ![t] = IF reg THEN [name |-> "add_fusion_node", arg |-> None]
                                     ELSE NoOp]
         /\ kind' = [kind EXCEPT ![t] = "guard"]
         /\ resolve' = [resolve EXCEPT ![t] = found]
         /\ read' = [read EXCEPT ![t] = IF HandleFound(found) THEN rd ELSE None]
         /\ page_name' = [page_name EXCEPT ![t] = pn]
         /\ handled' = [handled EXCEPT ![t] = h]
         /\ startPage' = [startPage EXCEPT ![t] = page]
         /\ IF ~HandleFound(found)
            THEN /\ result' = [result EXCEPT ![t] = Return(
                        [error |-> <<"Could not find 'resolve' object for function ", "func">>])]
                 /\ path' = [path EXCEPT ![t] = "no_resolve"]
                 /\ pc' = [pc EXCEPT ![t] = "done"]
                 /\ UNCHANGED current_page
            ELSE IF rd = "raise"
            THEN /\ result' = [result EXCEPT ![t] = PageManagementError(<<"boom">>)]
                 /\ path' = [path EXCEPT ![t] = "read_raised"]
                 /\ pc' = [pc EXCEPT ![t] = "done"]
                 /\ UNCHANGED current_page
            ELSE /\ current_page' = [current_page EXCEPT ![t] =
                                        IF rd = "ok" THEN page ELSE None]
                 /\ path' = [path EXCEPT ![t] = "read"]
                 /\ pc' = [pc EXCEPT ![t] = "checked"]
                 /\ UNCHANGED result
    /\ ncalls' = ncalls + 1
    /\ UNCHANGED <<page, page_switched, body, checks, opens, calls, prev>>

\* ensure_page wrapper, lines 40-48: compare and switch
SwitchPage(t) ==
    /\ pc[t] = "checked"
    /\ UNCHANGED <<serverVars, callVars>>
    /\ IF current_page[t] = None
       THEN \* None.lower() raises AttributeError, caught at line 62
            /\ result' = [result EXCEPT ![t] = PageManagementError(<<"no attribute 'lower'">>)]
            /\ path' = [path EXCEPT ![t] = "read_nonstr"]
            /\ pc' = [pc EXCEPT ![t] = "done"]
            /\ UNCHANGED <<page, page_switched, opens>>
       ELSE IF ~SamePage(current_page[t], page_name[t])
       THEN \E r \in OpenPageOutcomes :
            /\ opens' = [opens EXCEPT ![t] = Append(@, [arg |-> page_name[t], res |-> r])]
            /\ page' = IF r = "ok" THEN Lower(page_name[t]) ELSE page
            /\ IF r = "raise"
               THEN /\ result' = [result EXCEPT ![t] = PageManagementError(<<"boom">>)]
                    /\ path' = [path EXCEPT ![t] = "switch_raised"]
                    /\ pc' = [pc EXCEPT ![t] = "done"]
                    /\ UNCHANGED page_switched
               ELSE IF ~SwitchSucceeded(r)
               THEN /\ result' = [result EXCEPT ![t] = Return(
                           [error |-> <<"Failed to switch to ", page_name[t], " page">>])]
                    /\ path' = [path EXCEPT ![t] = "switch_failed"]
                    /\ pc' = [pc EXCEPT ![t] = "done"]
                    /\ UNCHANGED page_switched
               ELSE /\ page_switched' = [page_switched EXCEPT ![t] = TRUE]
                    /\ path' = [path EXCEPT ![t] = "switched"]
                    /\ pc' = [pc EXCEPT ![t] = "ready"]
                    /\ UNCHANGED result
       ELSE /\ path' = [path EXCEPT ![t] = "unswitched"]
            /\ pc' = [pc EXCEPT ![t] = "ready"]
            /\ UNCHANGED <<page, page_switched, opens, result>>
    /\ UNCHANGED <<kind, page_name, resolve, read, handled, current_page, body,
                   checks, calls, startPage, ncalls, prev>>

\* ensure_page wrapper, line 52: the wrapped function runs
Execute(t) ==
    /\ pc[t] = "ready"
    /\ UNCHANGED <<serverVars, callVars>>
    /\ \E o \in GuardedFuncOutcomes : body' = [body EXCEPT ![t] = o]
    /\ calls' = [calls EXCEPT ![t] = @ + 1]
    /\ pc' = [pc EXCEPT ![t] = "executed"]
    /\ UNCHANGED <<page, kind, page_name, resolve, read, handled, current_page,
                   page_switched, checks, result, path, opens, startPage, ncalls, prev>>

\* a guard whose restoring call is not protected by the inner try
GuardResult_RestoreLeaks(o, rr) ==
    IF rr = "raise" THEN PageManagementError(<<"boom">>)
    ELSE IF o.kind = "return" THEN o
    ELSE IF IsInstance(o.cls, "Exception") THEN PageManagementError(o.msg)
    ELSE o

\* a guard without the except clause of lines 62-65
GuardResult_NoExcept(o, rr) == o

\* what the guard hands to its caller once the finally clause has run
\* (lines 52-65), given what the function it wraps did and how the restoring
\* OpenPage ended (None when none was issued); an exception of the restoring
\* call is caught at line 59 and its result is not looked at
GuardResult(o, rr) ==
    IF o.kind = "return" THEN o
    ELSE IF IsInstance(o.cls, "Exception") THEN PageManagementError(o.msg)
    ELSE o

GuardPath(o) ==
    IF o.kind = "return" THEN "func_returned"
    ELSE IF IsInstance(o.cls, "Exception") THEN "func_raised"
    ELSE "escaped"

\* a guard that restores after a normal return only (no finally clause)
RestoreNeeded_OnReturnOnly(switched, o) == switched /\ o.kind = "return"

\* a guard that reopens the required page instead of the recorded one
RestoreTarget_Required(t) == page_name[t]

\* whether the finally clause issues the restoring OpenPage (line 55); the
\* clause runs however the wrapped function o ended
RestoreNeeded(switched, o) == switched

\* the page the restoring OpenPage is given (line 57)
RestoreTarget(t) == current_page[t]

\* ensure_page wrapper, lines 53-65: restore the page and return
Restore(t) ==
    /\ pc[t] = "executed"
    /\ UNCHANGED <<serverVars, callVars>>
    /\ IF RestoreNeeded(page_switched[t], WrappedOutcome(t))
       THEN \E r \in OpenPageOutcomes :
            /\ opens' = [opens EXCEPT ![t] = Append(@, [arg |-> RestoreTarget(t), res |-> r])]
            /\ page' = IF r = "ok" THEN Lower(RestoreTarget(t)) ELSE page
            /\ result' = [result EXCEPT ![t] = GuardResult(WrappedOutcome(t), r)]
       ELSE /\ result' = [result EXCEPT ![t] = GuardResult(WrappedOutcome(t), None)]
            /\ UNCHANGED <<page, opens>>
    /\ path' = [path EXCEPT ![t] = GuardPath(WrappedOutcome(t))]
    /\ pc' = [pc EXCEPT ![t] = "done"]
    /\ UNCHANGED <<kind, page_name, resolve, read, handled, current_page, page_switched, body,
                   checks, calls, startPage, ncalls, prev>>

\* handle_resolve_errors(func)(...), lines 35-61 of error_handler.py
CallHandled(t) ==
    /\ pc[t] = "idle"
    /\ Started /\ ncalls < MaxCalls
    /\ UNCHANGED <<serverVars, callVars>>
    /\ \E o \in FuncOutcomes :
         /\ body' = [body EXCEPT ![t] = o]
         /\ result' = [result EXCEPT ![t] = handle_resolve_errors(o)]
    /\ kind' = [kind EXCEPT ![t] = "handler"]
    /\ calls' = [calls EXCEPT ![t] = 1]
    /\ path' = [path EXCEPT ![t] = "handler"]
    /\ pc' = [pc EXCEPT ![t] = "done"]
    /\ ncalls' = ncalls + 1
    /\ UNCHANGED <<page, page_name, resolve, read, handled, current_page,
                   page_switched, checks, opens, startPage, prev>>

\* handle_resolve_errors(func)(...) where func passes an argument to a
\* validator of validation.py and returns a success envelope when the
\* validator lets it through
CallHandledValidating(t) ==
    /\ pc[t] = "idle"
    /\ Started /\ ncalls < MaxCalls
    /\ UNCHANGED <<serverVars, callVars>>
    /\ \E v \in ValidatorNames, x \in ArgValues :
         LET o == IF ValidatorCall(v, x).kind = "raise" THEN ValidatorCall(v, x)
                  ELSE Return(success(<<"ok">>, None, EmptyDict)) IN
         /\ body' = [body EXCEPT ![t] = o]
         /\ result' = [result EXCEPT ![t] = handle_resolve_errors(o)]
    /\ kind' = [kind EXCEPT ![t] = "handler"]
    /\ calls' = [calls EXCEPT ![t] = 1]
    /\ path' = [path EXCEPT ![t] = "validating"]
    /\ pc' = [pc EXCEPT ![t] = "done"]
    /\ ncalls' = ncalls + 1
    /\ UNCHANGED <<page, page_name, resolve, read, handled, current_page,
                   page_switched, checks, opens, startPage, prev>>

\* validate_params(**validators)(func)(...), lines 218-238 of validation.py
CallValidated(t) ==
    /\ pc[t] = "idle"
    /\ Started /\ ncalls < MaxCalls
    /\ UNCHANGED <<serverVars, callVars>>
    /\ \E cs \in CheckSeqs, o \in GuardedFuncOutcomes :
         /\ checks' = [checks EXCEPT ![t] = cs]
         /\ body' = [body EXCEPT ![t] = o]
         /\ result' = [result EXCEPT ![t] = validate_params(cs, o)]
         /\ calls' = [calls EXCEPT ![t] =
                         IF \E i \in 1..Len(cs) : cs[i] \in {"invalid", "crash"} THEN 0 ELSE 1]
    /\ kind' = [kind EXCEPT ![t] = "validate"]
    /\ path' = [path EXCEPT ![t] = "validate"]
    /\ pc' = [pc EXCEPT ![t] = "done"]
    /\ ncalls' = ncalls + 1
    /\ UNCHANGED <<page, page_name, resolve, read, handled, current_page,
                   page_switched, opens, startPage, prev>>

\* the caller takes the result; the wrapper's frame is gone
Complete(t) ==
    /\ pc[t] = "done"
    /\ prev' = IF kind[t] = "guard"
               THEN [valid |-> TRUE, startPage |-> startPage[t],
                     page_name |-> page_name[t], opens |-> opens[t]]
               ELSE IF kind[t] = "catalog" THEN NoPrev
               ELSE prev
    /\ pc' = [pc EXCEPT ![t] = "idle"]
    /\ kind' = [kind EXCEPT ![t] = None]
    /\ page_name' = [page_name EXCEPT ![t] = None]
    /\ resolve' = [resolve EXCEPT ![t] = None]
    /\ read' = [read EXCEPT ![t] = None]
    /\ handled' = [handled EXCEPT ![t] = FALSE]
    /\ current_page' = [current_page EXCEPT ![t] = None]
    /\ page_switched' = [page_switched EXCEPT ![t] = FALSE]
    /\ body' = [body EXCEPT ![t] = NoOutcome]
    /\ checks' = [checks EXCEPT ![t] = << >>]
    /\ result' = [result EXCEPT ![t] = NoOutcome]
    /\ path' = [path EXCEPT ![t] = None]
    /\ opens' = [opens EXCEPT ![t] = << >>]
    /\ calls' = [calls EXCEPT ![t] = 0]
    /\ startPage' = [startPage EXCEPT ![t] = None]
    /\ op' = [op EXCEPT ![t] = NoOp]
    /\ trace' = [trace EXCEPT ![t] = << >>]
    /\ UNCHANGED <<page, ncalls, serverVars>>

\* no decorated call is in progress
Quiet == \A u \in Threads : pc[u] = "idle"

\* calls issued one after the other: a call begins when none is in progress
SeqInvoke(t) == Quiet /\ Invoke(t)
SeqCallHandled(t) == Quiet /\ CallHandled(t)
SeqCallValidated(t) == Quiet /\ CallValidated(t)
SeqCallHandledValidating(t) == Quiet /\ CallHandledValidating(t)

\* ------------------------------------------------------ catalog operations
\* a catalog operation returns a legacy str, a list or a dict: ty tells which
ReturnAs(ty, v) == [kind |-> "return", type |-> ty, val |-> v]

\* what one run of an operation did: its result, the OpenPage calls it
\* issued, the host methods it called and the host's page when it ended
Out(res, ops, tr, pg) == [result |-> res, opens |-> ops, trace |-> tr, page |-> pg]

NotConnected == <<"Error: Not connected to DaVinci Resolve">>

\* valid_pages of switch_page (core_operations.py:36), the list of
\* get_valid_pages (page_manager.py:89)
ValidPages == {"media", "cut", "edit", "fusion", "color", "fairlight", "deliver"}

\* page arguments given to switch_page
PageArgs == {"fusion", "Fusion", "color", "render"}

\* a switch_page that asks for the page again when the host refused it
switch_page_Retrying(h, pg, r, cur) ==
    IF h = None THEN Out(ReturnAs("str", NotConnected), << >>, << >>, cur)
    ELSE IF Lower(pg) \notin ValidPages
    THEN Out(ReturnAs("str", <<"Error: Invalid page '", pg, "'. Valid pages are: ",
                               "media, cut, edit, fusion, color, fairlight, deliver">>),
             << >>, << >>, cur)
    ELSE Out(ReturnAs("str",
                 CASE r = "ok" -> <<"Successfully switched to ", pg, " page">>
                   [] r = "fail" -> <<"Failed to switch to ", pg, " page">>
                   [] OTHER -> <<"Error switching to ", pg, " page: ", "boom">>),
             IF r = "fail"
             THEN <<[arg |-> Lower(pg), res |-> r], [arg |-> Lower(pg), res |-> r]>>
             ELSE <<[arg |-> Lower(pg), res |-> r]>>,
             <<"OpenPage">>,
             IF r = "ok" THEN Lower(pg) ELSE cur)

\* switch_page(page), core_operations.py:25-47: h is the handle of the
\* closure, r how the host's OpenPage ends, cur the host's page
switch_page(h, pg, r, cur) ==
    IF h = None THEN Out(ReturnAs("str", NotConnected), << >>, << >>, cur)
    ELSE IF Lower(pg) \notin ValidPages
    THEN Out(ReturnAs("str", <<"Error: Invalid page '", pg, "'. Valid pages are: ",
                               "media, cut, edit, fusion, color, fairlight, deliver">>),
             << >>, << >>, cur)
    ELSE Out(ReturnAs("str",
                 CASE r = "ok" -> <<"Successfully switched to ", pg, " page">>
                   [] r = "fail" -> <<"Failed to switch to ", pg, " page">>
                   [] OTHER -> <<"Error switching to ", pg, " page: ", "boom">>),
             <<[arg |-> Lower(pg), res |-> r]>>,
             <<"OpenPage">>,
             IF r = "ok" THEN Lower(pg) ELSE cur)

\* what scriptapp("Resolve") gives reconnect_to_resolve: a handle, None, or
\* the import or the call raises
AppOutcomes == {"handle", None, "raise"}

\* reconnect_to_resolve(), core_operations.py:88-112
reconnect_to_resolve(app, cur) ==
    Out(ReturnAs("str",
            CASE app = "raise" -> <<"Error reconnecting to DaVinci Resolve: ", "boom">>
              [] app = None -> <<"Failed to reconnect. Is DaVinci Resolve running?">>
              [] OTHER -> <<"Successfully reconnected to DaVinci Resolve: ",
                            "product", " ", "version">>),
        << >>,
        IF app = "handle" THEN <<"GetProductName", "GetVersionString">> ELSE << >>,
        cur)

\* the handle the operations registered by create_server see after a
\* reconnect that obtained new_resolve: line 106 holds a comment only,
\* nothing is assigned
HandleAfterReconnect(h, new_resolve) == h

\* the server takes a catalog call when it has started and no call is in
\* progress
CanCall == Quiet /\ Started /\ ncalls < MaxCalls

\* a caller invokes the catalog operation name with argument arg, and the
\* operation runs to its end as out describes
CatalogCall(t, name, arg, out) ==
    /\ kind' = [kind EXCEPT ![t] = "catalog"]
    /\ op' = [op EXCEPT ![t] = [name |-> name, arg |-> arg]]
    /\ result' = [result EXCEPT ![t] = out.result]
    /\ opens' = [opens EXCEPT ![t] = out.opens]
    /\ trace' = [trace EXCEPT ![t] = out.trace]
    /\ startPage' = [startPage EXCEPT ![t] = page]
    /\ page' = out.page
    /\ path' = [path EXCEPT ![t] = "catalog"]
    /\ pc' = [pc EXCEPT ![t] = "done"]
    /\ ncalls' = ncalls + 1
    /\ UNCHANGED <<page_name, resolve, read, handled, current_page, page_switched, body,
                   checks, calls, prev, nreg>>

CallSwitchPage(t) ==
    /\ CanCall
    /\ \E pg \in PageArgs, r \in OpenPageOutcomes :
         CatalogCall(t, "switch_page", pg, switch_page(handle, pg, r, page))
    /\ UNCHANGED <<handle, reconnected>>

CallReconnect(t) ==
    /\ CanCall
    /\ \E app \in AppOutcomes :
        /\ CatalogCall(t, "reconnect_to_resolve", None, reconnect_to_resolve(app, page))
        /\ handle' = HandleAfterReconnect(handle, app)
        /\ reconnected' = (reconnected \/ app = "handle")

\* how a host accessor ends: it returns an object, it returns None, it raises
AccessorOutcomes == {"ok", "null", "raise"}

\* list_projects(resolve), project_operations.py:44-56, behind the resource
\* resolve://projects (lines 14-17): pm is how GetProjectManager ends, pl how
\* GetProjectListInCurrentFolder ends; no call is inside a try
list_projects(h, pm, pl, cur) ==
    IF h = None THEN Out(ReturnAs("list", NotConnected), << >>, << >>, cur)
    ELSE IF pm = "raise"
    THEN Out(Raise("RuntimeError", <<"boom">>), << >>, <<"GetProjectManager">>, cur)
    ELSE IF pm = "null"
    THEN Out(ReturnAs("list", <<"Error: Failed to get Project Manager">>), << >>,
             <<"GetProjectManager">>, cur)
    ELSE Out(CASE pl = "raise" -> Raise("RuntimeError", <<"boom">>)
               [] pl = "null" -> Raise("TypeError", <<"'NoneType' object is not iterable">>)
               [] OTHER -> ReturnAs("list", <<"Project 1">>),
             << >>, <<"GetProjectManager", "GetProjectListInCurrentFolder">>, cur)

\* close_project_tool(), project_operations.py:39-42: the module defines no
\* close_project, so the call raises NameError before the handle is looked at
close_project_tool(h, cur) ==
    Out(Raise("NameError", <<"name 'close_project' is not defined">>), << >>, << >>, cur)

\* the tool add_fusion_node that switches the page inline,
\* fusion_operations.py:847-893 (connect_fusion_nodes, set_fusion_node_parameter,
\* create_fusion_text, create_fusion_transform and render_fusion_composition
\* follow the same lines): rd is how GetCurrentPage ends, sw how
\* OpenPage("fusion") ends, work how the Fusion accessors end, rs how the
\* restoring OpenPage ends and rs2 how the one of the except clause ends when
\* the one of the try block has raised
add_fusion_node(h, rd, sw, work, rs, rs2, cur) ==
    LET away == cur # "fusion"
        open1 == IF away THEN <<[arg |-> "fusion", res |-> sw]>> ELSE << >>
        page1 == IF away /\ sw = "ok" THEN "fusion" ELSE cur
        tr1 == <<"GetCurrentPage">> \o (IF away THEN <<"OpenPage">> ELSE << >>)
        \* the except clause, lines 890-893, entered with the host on page pg
        \* after the OpenPage calls ops and the host calls tr
        Except(ops, tr, pg, r) ==
            IF ~away THEN Out(ReturnAs("str", <<"Error adding Fusion node: ", "boom">>),
                              ops, tr, pg)
            ELSE Out(IF r = "raise" THEN Raise("RuntimeError", <<"boom">>)
                     ELSE ReturnAs("str", <<"Error adding Fusion node: ", "boom">>),
                     Append(ops, [arg |-> cur, res |-> r]), Append(tr, "OpenPage"),
                     IF r = "ok" THEN cur ELSE pg)
    IN  IF h = None THEN Out(ReturnAs("str", NotConnected), << >>, << >>, cur)
        ELSE IF rd = "raise"
        THEN \* current_page is unbound when the except clause reads it
             Out(Raise("UnboundLocalError", <<"current_page">>), << >>,
                 <<"GetCurrentPage">>, cur)
        ELSE IF away /\ sw = "raise" THEN Except(open1, tr1, cur, rs)
        ELSE IF work = "null"
        THEN Out(ReturnAs("str", <<"Error: Failed to access Fusion">>), open1,
                 Append(tr1, "Fusion"), page1)
        ELSE IF work = "raise" THEN Except(open1, Append(tr1, "Fusion"), page1, rs)
        ELSE IF ~away
        THEN Out(ReturnAs("str", <<"Successfully added ", "Merge", " node '", "Merge1", "'">>),
                 open1, tr1 \o <<"Fusion", "AddTool">>, page1)
        ELSE IF rs = "raise"
        THEN Except(Append(open1, [arg |-> cur, res |-> rs]),
                    tr1 \o <<"Fusion", "AddTool", "OpenPage">>, page1, rs2)
        ELSE Out(ReturnAs("str", <<"Successfully added ", "Merge", " node '", "Merge1", "'">>),
                 Append(open1, [arg |-> cur, res |-> rs]),
                 tr1 \o <<"Fusion", "AddTool", "OpenPage">>,
                 IF rs = "ok" THEN cur ELSE page1)

\* the resource resolve://fairlight/status, fairlight_operations.py:11-52:
\* pre is how the accessors before the switch end, work how the ones after it
get_fairlight_status(h, pre, rd, sw, work, rs, cur) ==
    LET away == cur # "fairlight"
        open1 == IF away THEN <<[arg |-> "fairlight", res |-> sw]>> ELSE << >>
        page1 == IF away /\ sw = "ok" THEN "fairlight" ELSE cur
        tr0 == <<"GetProjectManager", "GetCurrentProject", "GetCurrentTimeline">>
        tr1 == tr0 \o <<"GetCurrentPage">> \o (IF away THEN <<"OpenPage">> ELSE << >>)
        Failed == ReturnAs("dict", [error |-> <<"Error getting Fairlight status: ", "boom">>])
    IN  IF h = None
        THEN Out(ReturnAs("dict", [error |-> <<"Not connected to DaVinci Resolve">>]),
                 << >>, << >>, cur)
        ELSE IF pre = "null"
        THEN Out(ReturnAs("dict", [error |-> <<"No project currently open">>]), << >>,
                 <<"GetProjectManager", "GetCurrentProject">>, cur)
        ELSE IF pre = "raise" THEN Out(Failed, << >>, <<"GetProjectManager">>, cur)
        ELSE IF rd = "raise" THEN Out(Failed, << >>, tr0 \o <<"GetCurrentPage">>, cur)
        ELSE IF away /\ sw = "raise" THEN Out(Failed, open1, tr1, cur)
        ELSE IF work = "raise" THEN Out(Failed, open1, Append(tr1, "GetTrackCount"), page1)
        ELSE IF ~away
        THEN Out(ReturnAs("dict", [page |-> "fairlight", current_page |-> cur]), open1,
                 tr1 \o <<"GetTrackCount", "GetName">>, page1)
        ELSE Out(IF rs = "raise" THEN Failed
                 ELSE ReturnAs("dict", [page |-> "fairlight", current_page |-> cur]),
                 Append(open1, [arg |-> cur, res |-> rs]),
                 tr1 \o <<"GetTrackCount", "GetName", "OpenPage">>,
                 IF rs = "ok" THEN cur ELSE page1)

CallListProjects(t) ==
    /\ CanCall
    /\ \E pm \in AccessorOutcomes, pl \in AccessorOutcomes :
         CatalogCall(t, "resolve://projects", None, list_projects(handle, pm, pl, page))
    /\ UNCHANGED <<handle, reconnected>>

CallCloseProject(t) ==
    /\ CanCall
    /\ CatalogCall(t, "close_project_tool", None, close_project_tool(handle, page))
    /\ UNCHANGED <<handle, reconnected>>

CallAddFusionNode(t) ==
    /\ CanCall
    /\ \E rd \in {"ok", "raise"}, sw \in OpenPageOutcomes, work \in AccessorOutcomes,
          rs \in OpenPageOutcomes, rs2 \in OpenPageOutcomes :
         CatalogCall(t, "add_fusion_node", None,
                     add_fusion_node(handle, rd, sw, work, rs, rs2, page))
    /\ UNCHANGED <<handle, reconnected>>

CallFairlightStatus(t) ==
    /\ CanCall
    /\ \E pre \in AccessorOutcomes, rd \in {"ok", "raise"}, sw \in OpenPageOutcomes,
          work \in {"ok", "raise"}, rs \in OpenPageOutcomes :
         CatalogCall(t, "resolve://fairlight/status", None,
                     get_fairlight_status(handle, pre, rd, sw, work, rs, page))
    /\ UNCHANGED <<handle, reconnected>>

\* the state of the host a project tool meets: every accessor returns its
\* object, GetProjectManager returns None, GetCurrentProject returns None,
\* GetCurrentTimeline returns None, or GetProjectManager raises
HostStates == {"ok", "no_pm", "no_project", "no_timeline", "raise"}

\* the four setters of cache_management.py that check their argument
CacheSetters == {"set_cache_mode", "set_optimized_media_mode", "set_proxy_mode",
                 "set_proxy_quality"}

\* the list the setter checks its argument against (lines 60, 95, 130, 165)
SetterChoices(name) ==
    IF name = "set_proxy_quality"
    THEN {"Quarter Resolution", "Half Resolution", "Three Quarter Resolution",
          "Full Resolution"}
    ELSE {"Auto", "On", "Off"}

\* the words the setter's messages name the setting with
SetterLabel(name) ==
    CASE name = "set_cache_mode" -> "cache mode"
      [] name = "set_optimized_media_mode" -> "optimized media mode"
      [] name = "set_proxy_mode" -> "proxy mode"
      [] OTHER -> "proxy quality"

\* arguments given to the setters
SetterArgs == {"Auto", "auto", "Half Resolution", "Bogus"}

\* set_cache_mode(mode), cache_management.py:40-73, and the three setters
\* after it (75-178): hs is the host's state, ss how SetSetting ends
cache_setter(name, h, hs, mode, ss, cur) ==
    LET Str1(s) == ReturnAs("str", s)
        label == SetterLabel(name)
    IN  IF h = None THEN Out(Str1(NotConnected), << >>, << >>, cur)
        ELSE IF hs = "raise"
        THEN Out(Str1(<<"Error setting ", label, ": ", "boom">>), << >>,
                 <<"GetProjectManager">>, cur)
        ELSE IF hs = "no_pm"
        THEN Out(Str1(<<"Error: Failed to get Project Manager">>), << >>,
                 <<"GetProjectManager">>, cur)
        ELSE IF hs = "no_project"
        THEN Out(Str1(<<"Error: No project currently open">>), << >>,
                 <<"GetProjectManager", "GetCurrentProject">>, cur)
        ELSE IF mode \notin SetterChoices(name)
        THEN Out(Str1(<<"Error: Invalid ", label, ". Must be one of: ", "choices">>), << >>,
                 <<"GetProjectManager", "GetCurrentProject">>, cur)
        ELSE Out(Str1(CASE ss = "ok" -> <<"Successfully set ", label, " to '", mode, "'">>
                        [] ss = "fail" -> <<"Failed to set ", label, " to '", mode, "'">>
                        [] OTHER -> <<"Error setting ", label, ": ", "boom">>),
                 << >>, <<"GetProjectManager", "GetCurrentProject", "SetSetting">>, cur)

\* get_all_keyframeable_properties(), keyframe_control.py:377-383 (three of
\* the fifteen names)
KeyframeableProperties == {"Pan", "ZoomX", "Volume"}

\* property_name arguments given to add_keyframe
PropertyArgs == {"Pan", "Bogus"}

\* add_keyframe(timeline_item_id, property_name, frame, value),
\* keyframe_control.py:65-122: item tells whether find_timeline_item_by_id
\* finds the item, inRange whether frame lies in the item's range, sp how
\* SetProperty ends
add_keyframe(h, hs, prop, item, inRange, sp, cur) ==
    LET Str1(s) == ReturnAs("str", s)
        tr3 == <<"GetProjectManager", "GetCurrentProject", "GetCurrentTimeline">>
        tr4 == tr3 \o <<"GetTrackCount", "GetItemListInTrack">>
        tr5 == tr4 \o <<"GetMediaType", "GetStart", "GetEnd">>
    IN  IF h = None THEN Out(Str1(NotConnected), << >>, << >>, cur)
        ELSE IF hs = "raise"
        THEN Out(Str1(<<"Error adding keyframe: ", "boom">>), << >>,
                 <<"GetProjectManager">>, cur)
        ELSE IF hs = "no_pm"
        THEN Out(Str1(<<"Error: Failed to get Project Manager">>), << >>,
                 <<"GetProjectManager">>, cur)
        ELSE IF hs = "no_project"
        THEN Out(Str1(<<"Error: No project currently open">>), << >>,
                 <<"GetProjectManager", "GetCurrentProject">>, cur)
        ELSE IF hs = "no_timeline"
        THEN Out(Str1(<<"Error: No timeline currently active">>), << >>, tr3, cur)
        ELSE IF prop \notin KeyframeableProperties
        THEN Out(Str1(<<"Error: Invalid property name. Must be one of: ", "properties">>),
                 << >>, tr3, cur)
        ELSE IF ~item
        THEN Out(Str1(<<"Error: Timeline item with ID '", "id", "' not found">>), << >>,
                 tr4, cur)
        ELSE IF ~inRange
        THEN Out(Str1(<<"Error: Frame ", "frame", " is outside the item's range (",
                        "start", " to ", "end", ")">>), << >>, tr5, cur)
        ELSE Out(Str1(CASE sp = "ok" -> <<"Successfully added keyframe for ", prop,
                                          " at frame ", "frame", " with value ", "value">>
                        [] sp = "fail" -> <<"Failed to add keyframe for ", prop,
                                            " at frame ", "frame">>
                        [] OTHER -> <<"Error adding keyframe: ", "boom">>),
                 << >>, Append(tr5, "SetProperty"), cur)

CallCacheSetter(t) ==
    /\ CanCall
    /\ \E name \in CacheSetters, hs \in HostStates \ {"no_timeline"}, mode \in SetterArgs,
          ss \in OpenPageOutcomes :
         CatalogCall(t, name, mode, cache_setter(name, handle, hs, mode, ss, page))
    /\ UNCHANGED <<handle, reconnected>>

CallAddKeyframe(t) ==
    /\ CanCall
    /\ \E hs \in HostStates, prop \in PropertyArgs, item \in BOOLEAN, inRange \in BOOLEAN,
          sp \in OpenPageOutcomes :
         CatalogCall(t, "add_keyframe", [property_name |-> prop, inRange |-> inRange],
                     add_keyframe(handle, hs, prop, item, inRange, sp, page))
    /\ UNCHANGED <<handle, reconnected>>

\* ------------------------------------------------------- utility functions
\* a caller applies the utility function name to arg: it ends as res, having
\* called the host methods tr, and leaves the host's page alone
UtilityCall(t, name, arg, res, tr) ==
    /\ kind' = [kind EXCEPT ![t] = "utility"]
    /\ op' = [op EXCEPT ![t] = [name |-> name, arg |-> arg]]
    /\ result' = [result EXCEPT ![t] = res]
    /\ trace' = [trace EXCEPT ![t] = tr]
    /\ path' = [path EXCEPT ![t] = "utility"]
    /\ pc' = [pc EXCEPT ![t] = "done"]
    /\ ncalls' = ncalls + 1
    /\ UNCHANGED <<page, page_name, resolve, read, handled, current_page, page_switched,
                   body, checks, opens, calls, startPage, prev, serverVars>>

\* info(message, data, **extra), response_formatter.py:67-92
info(message, data, extra) ==
    LET r0 == [success |-> TRUE, message |-> message, type |-> "info"]
        r1 == IF data # None THEN Update(r0, [data |-> data]) ELSE r0
    IN  Update(r1, extra)

\* the constructors of response_formatter.py
Constructors == {"success", "error", "info"}

\* the extra keywords a call passes: none, a key of its own, or a key the
\* constructor also sets (message, data, error_code and details are
\* parameters of the constructors and cannot arrive in **extra)
ExtraChoices == {"none", "count", "success_true", "success_false", "type"}

ExtraOf(c) ==
    CASE c = "count" -> [count |-> "3"]
      [] c = "success_true" -> [success |-> TRUE]
      [] c = "success_false" -> [success |-> FALSE]
      [] c = "type" -> [type |-> "warning"]
      [] OTHER -> EmptyDict

\* constructor ctor applied to the message msg and the extra keywords ex
Construct(ctor, msg, ex) ==
    CASE ctor = "success" -> success(msg, None, ExtraOf(ex))
      [] ctor = "error" -> error(msg, "OPERATION_ERROR", None, ExtraOf(ex))
      [] OTHER -> info(msg, None, ExtraOf(ex))

CallConstructor(t) ==
    /\ CanCall
    /\ \E ctor \in Constructors, msg \in ExcMessages, ex \in ExtraChoices :
         UtilityCall(t, ctor, [message |-> msg, extra |-> ex],
                     ReturnAs("dict", Construct(ctor, msg, ex)), << >>)

\* what a helper of resolve_helpers.py did: its result and the host methods
\* it called
Did(res, tr) == [result |-> res, trace |-> tr]

\* the state of the host a helper meets: the states of HostStates, the probe
\* GetCurrentPage raises, or GetMediaPool returns None
HelperStates == HostStates \cup {"probe_raise", "no_media_pool"}

\* validate_resolve_state(resolve), error_handler.py:78-95
validate_resolve_state(h, hs) ==
    IF h = None THEN Did(Raise("ConnectionError", <<"Not connected to DaVinci Resolve">>), << >>)
    ELSE IF hs = "probe_raise"
    THEN Did(Raise("ConnectionError", <<"DaVinci Resolve connection error: ", "boom">>),
             <<"GetCurrentPage">>)
    ELSE Did(Return(None), <<"GetCurrentPage">>)

\* a helper that goes on with whatever GetProjectManager returned
get_current_project_Unchecked(h, hs) ==
    LET v == validate_resolve_state(h, hs) IN
    IF v.result.kind = "raise" THEN v
    ELSE IF hs = "raise"
    THEN Did(Raise("RuntimeError", <<"boom">>), Append(v.trace, "GetProjectManager"))
    ELSE IF hs = "no_pm"
    THEN Did(Raise("AttributeError", <<"'NoneType' object has no attribute 'GetCurrentProject'">>),
             Append(v.trace, "GetProjectManager"))
    ELSE IF hs = "no_project"
    THEN Did(Raise("OperationError", <<"No project currently open">>),
             v.trace \o <<"GetProjectManager", "GetCurrentProject">>)
    ELSE Did(Return("project"), v.trace \o <<"GetProjectManager", "GetCurrentProject">>)

\* get_current_project(resolve), resolve_helpers.py:12-35
get_current_project(h, hs) ==
    LET v == validate_resolve_state(h, hs) IN
    IF v.result.kind = "raise" THEN v
    ELSE IF hs = "raise"
    THEN Did(Raise("RuntimeError", <<"boom">>), Append(v.trace, "GetProjectManager"))
    ELSE IF hs = "no_pm"
    THEN Did(Raise("OperationError", <<"Failed to get Project Manager">>),
             Append(v.trace, "GetProjectManager"))
    ELSE IF hs = "no_project"
    THEN Did(Raise("OperationError", <<"No project currently open">>),
             v.trace \o <<"GetProjectManager", "GetCurrentProject">>)
    ELSE Did(Return("project"), v.trace \o <<"GetProjectManager", "GetCurrentProject">>)

\* get_current_timeline(resolve), resolve_helpers.py:37-56
get_current_timeline(h, hs) ==
    LET p == get_current_project(h, hs) IN
    IF p.result.kind = "raise" THEN p
    ELSE IF hs = "no_timeline"
    THEN Did(Raise("OperationError", <<"No timeline currently active">>),
             Append(p.trace, "GetCurrentTimeline"))
    ELSE Did(Return("timeline"), Append(p.trace, "GetCurrentTimeline"))

\* get_media_pool(resolve), resolve_helpers.py:58-77
get_media_pool(h, hs) ==
    LET p == get_current_project(h, hs) IN
    IF p.result.kind = "raise" THEN p
    ELSE IF hs = "no_media_pool"
    THEN Did(Raise("OperationError", <<"Failed to get Media Pool">>),
             Append(p.trace, "GetMediaPool"))
    ELSE Did(Return("media_pool"), Append(p.trace, "GetMediaPool"))

\* the three accessor helpers
Helpers == {"get_current_project", "get_current_timeline", "get_media_pool"}

Helper(name, h, hs) ==
    CASE name = "get_current_project" -> get_current_project(h, hs)
      [] name = "get_current_timeline" -> get_current_timeline(h, hs)
      [] OTHER -> get_media_pool(h, hs)

CallHelper(t) ==
    /\ CanCall
    /\ \E name \in Helpers, hs \in HelperStates :
         UtilityCall(t, name, hs, Helper(name, handle, hs).result,
                     Helper(name, handle, hs).trace)

\* the bounds validate_range is called with
RangeBounds == {<<0, 1>>, <<-1, 0>>, <<1, 1>>}

\* validate_range(value, min_val, max_val) called on its own
CallValidateRange(t) ==
    /\ CanCall
    /\ \E x \in ArgValues, b \in RangeBounds :
         UtilityCall(t, "validate_range", [value |-> x, min |-> b[1], max |-> b[2]],
                     validate_range(x, b[1], b[2], "value"), << >>)

\* the choice lists validate_choice is called with
ChoiceLists == {<<"Auto", "On", "Off">>, <<"auto", "Auto", "On">>, <<"On">>}

\* validate_choice(value, choices) called on its own, in its default mode
CallValidateChoice(t) ==
    /\ CanCall
    /\ \E x \in ArgValues, ch \in ChoiceLists :
         UtilityCall(t, "validate_choice", [value |-> x, choices |-> ch],
                     validate_choice(x, ch, "value", FALSE), << >>)

\* ---- inspection operations (api/object_inspection.py) ----

\* the part of the host graph the inspection tools walk: the attributes an
\* object has (hasattr), all of them methods; None has none of these
HostAttrs(obj) ==
    CASE obj = "resolve" -> {"GetProjectManager", "Quit"}
      [] obj = "pm" -> {"GetCurrentProject", "DeleteProject"}
      [] OTHER -> {}

\* how the host ends the call obj.name(*args): the object or value it
\* returns, or "raise"; arg = None is a call without arguments.
\* DeleteProject needs the project's name, the other methods take nothing
HostCall(obj, name, arg, hs) ==
    CASE name = "DeleteProject" -> IF arg = None THEN "raise" ELSE "True"
      [] arg # None -> "raise"
      [] name = "GetProjectManager" -> "pm"
      [] name = "GetCurrentProject" -> IF hs = "no_project" THEN None ELSE "project"
      [] OTHER -> None

\* object_path.split('.') of the paths callers give
PathParts == {"GetProjectManager", "GetCurrentProject", "Quit", "NoSuchName"}
ObjectPaths ==
    {<<"resolve">>} \cup {<<a>> : a \in PathParts} \cup {<<a, b>> : a, b \in PathParts}
MethodNames == {"Quit", "DeleteProject", "NoSuchName"}

\* the dotted text of a path
RECURSIVE Dotted(_)
Dotted(parts) ==
    IF Len(parts) = 1 THEN parts
    ELSE <<Head(parts), ".">> \o Dotted(Tail(parts))

\* the loop "for part in path_parts" (object_inspection.py:123-131, 167-175,
\* 212-220, 262-270): every part the current object has is fetched with
\* getattr and, being callable, called without arguments
RECURSIVE FollowPath(_, _, _, _)
FollowPath(obj, parts, hs, tr) ==
    IF parts = << >> THEN [end |-> "ok", obj |-> obj, trace |-> tr, part |-> None]
    ELSE IF Head(parts) \notin HostAttrs(obj)
    THEN [end |-> "missing", obj |-> obj, trace |-> tr, part |-> Head(parts)]
    ELSE LET r == HostCall(obj, Head(parts), None, hs) IN
         IF r = "raise"
         THEN [end |-> "raise", obj |-> obj, trace |-> Append(tr, Head(parts)),
               part |-> Head(parts)]
         ELSE FollowPath(r, Tail(parts), hs, Append(tr, Head(parts)))

InspectionTools ==
    {"inspect_custom_object", "get_object_methods", "get_object_properties",
     "test_object_method"}

\* the words of the tool's "except Exception" message
InspectionErrorPrefix(name, parts, method_name) ==
    CASE name = "inspect_custom_object" ->
             <<"Error inspecting object at path '">> \o Dotted(parts) \o <<"': ">>
      [] name = "get_object_methods" ->
             <<"Error getting methods for '">> \o Dotted(parts) \o <<"': ">>
      [] name = "get_object_properties" ->
             <<"Error getting properties for '">> \o Dotted(parts) \o <<"': ">>
      [] OTHER ->
             <<"Error calling method ", method_name, " on ">> \o Dotted(parts)
                 \o <<": ">>

\* the four tools that take an object path (object_inspection.py:107-145,
\* 147-190, 192-238, 240-293). parts is the split path, method_name and arg
\* the method test_object_method is asked to call and its argument, fin how
\* the report on the object found ends (src.utils.object_inspection, imported
\* inside the try). inspect_custom_object alone walks the path "resolve"
\* like any other.
inspection_tool(name, h, parts, method_name, arg, hs, fin, cur) ==
    IF h = None THEN Out(ReturnAs("str", NotConnected), << >>, << >>, cur)
    ELSE
    LET f == IF name # "inspect_custom_object" /\ parts = <<"resolve">>
             THEN [end |-> "ok", obj |-> "resolve", trace |-> << >>, part |-> None]
             ELSE FollowPath("resolve", parts, hs, << >>)
        failed == InspectionErrorPrefix(name, parts, method_name) \o <<"boom">>
    IN  CASE f.end = "missing" ->
                 Out(ReturnAs("str", <<"Error: '", f.part, "' not found in object path">>),
                     << >>, f.trace, cur)
          [] f.end = "raise" -> Out(ReturnAs("str", failed), << >>, f.trace, cur)
          [] f.obj = None ->
                 Out(ReturnAs("str", <<"Error: Object path '">> \o Dotted(parts)
                                         \o <<"' returned None">>),
                     << >>, f.trace, cur)
          [] name # "test_object_method" ->
                 Out(ReturnAs("str", IF fin = "raise" THEN failed
                                     ELSE <<"report on ">> \o Dotted(parts)),
                     << >>, f.trace, cur)
          [] method_name \notin HostAttrs(f.obj) ->
                 Out(ReturnAs("str", <<"Error: Method '", method_name, "' not found on ">>
                                         \o Dotted(parts)),
                     << >>, f.trace, cur)
          [] OTHER ->
                 LET r == HostCall(f.obj, method_name, arg, hs) IN
                 Out(ReturnAs("str",
                         IF r = "raise" THEN failed
                         ELSE <<"Method ">> \o Dotted(parts)
                                  \o <<".", method_name, "(", IF arg = None THEN "" ELSE arg,
                                       ") returned: ", r>>),
                     << >>, Append(f.trace, method_name), cur)

CallInspection(t) ==
    /\ CanCall
    /\ \E name \in InspectionTools, parts \in ObjectPaths, hs \in {"ok", "no_project"} :
       \E method_name \in IF name = "test_object_method" THEN MethodNames ELSE {None},
          arg \in IF name = "test_object_method" THEN {None, "Project 1"} ELSE {None},
          fin \in IF name = "test_object_method" THEN {"ok"} ELSE {"ok", "raise"} :
         CatalogCall(t, name, [path |-> parts, method |-> method_name, arg |-> arg],
                     inspection_tool(name, handle, parts, method_name, arg, hs, fin, page))
    /\ UNCHANGED <<handle, reconnected>>

\* ---- opening and creating projects (api/project_operations.py) ----

\* the project lists the host reports and the names callers give
ProjectLists == {<< >>, <<"Project 1">>, <<"Project 1", "Demo">>}
ProjectNames == {"", "Project 1", "New"}

\* name in projects
InList(name, projects) == \E i \in 1..Len(projects) : projects[i] = name

\* ', '.join(projects)
RECURSIVE CommaJoined(_)
CommaJoined(projects) ==
    IF projects = << >> THEN << >>
    ELSE IF Len(projects) = 1 THEN projects
    ELSE <<Head(projects), ", ">> \o CommaJoined(Tail(projects))

\* the call gets as far as the project list: pm is how GetProjectManager
\* ends, pl how GetProjectListInCurrentFolder ends
ListRead(h, name, pm, pl) == h # None /\ name # "" /\ pm = "ok" /\ pl = "ok"

\* how open_project and create_project end when they do not get that far
\* (project_operations.py:75-86, 98-109)
ProjectPrologue(h, name, pm, pl, cur) ==
    IF h = None THEN Out(ReturnAs("str", NotConnected), << >>, << >>, cur)
    ELSE IF name = ""
    THEN Out(ReturnAs("str", <<"Error: Project name cannot be empty">>), << >>, << >>, cur)
    ELSE IF pm = "raise"
    THEN Out(Raise("RuntimeError", <<"boom">>), << >>, <<"GetProjectManager">>, cur)
    ELSE IF pm = "null"
    THEN Out(ReturnAs("str", <<"Error: Failed to get Project Manager">>), << >>,
             <<"GetProjectManager">>, cur)
    ELSE IF pl = "raise"
    THEN Out(Raise("RuntimeError", <<"boom">>), << >>,
             <<"GetProjectManager", "GetProjectListInCurrentFolder">>, cur)
    ELSE Out(Raise("TypeError", <<"argument of type 'NoneType' is not iterable">>), << >>,
             <<"GetProjectManager", "GetProjectListInCurrentFolder">>, cur)

\* an open_project that loads the project without looking at the list
open_project_NoListCheck(h, name, pm, pl, projects, res, cur) ==
    IF ~ListRead(h, name, pm, pl) THEN ProjectPrologue(h, name, pm, pl, cur)
    ELSE Out(ReturnAs("str", IF res THEN <<"Successfully opened project '", name, "'">>
                             ELSE <<"Failed to open project '", name, "'">>),
             << >>, <<"GetProjectManager", "GetProjectListInCurrentFolder", "LoadProject">>,
             cur)

\* open_project(resolve, name), project_operations.py:73-94, behind the tool
\* open_project_tool (lines 24-27); res is what LoadProject returns
open_project(h, name, pm, pl, projects, res, cur) ==
    IF ~ListRead(h, name, pm, pl) THEN ProjectPrologue(h, name, pm, pl, cur)
    ELSE IF ~InList(name, projects)
    THEN Out(ReturnAs("str", <<"Error: Project '", name, "' not found. Available projects: ">>
                                 \o CommaJoined(projects)),
             << >>, <<"GetProjectManager", "GetProjectListInCurrentFolder">>, cur)
    ELSE Out(ReturnAs("str", IF res THEN <<"Successfully opened project '", name, "'">>
                             ELSE <<"Failed to open project '", name, "'">>),
             << >>, <<"GetProjectManager", "GetProjectListInCurrentFolder", "LoadProject">>,
             cur)

\* create_project(resolve, name), project_operations.py:96-117, behind the
\* tool create_project_tool (lines 29-32); res is what CreateProject returns
create_project(h, name, pm, pl, projects, res, cur) ==
    IF ~ListRead(h, name, pm, pl) THEN ProjectPrologue(h, name, pm, pl, cur)
    ELSE IF InList(name, projects)
    THEN Out(ReturnAs("str", <<"Error: Project '", name, "' already exists">>),
             << >>, <<"GetProjectManager", "GetProjectListInCurrentFolder">>, cur)
    ELSE Out(ReturnAs("str", IF res THEN <<"Successfully created project '", name, "'">>
                             ELSE <<"Failed to create project '", name, "'">>),
             << >>, <<"GetProjectManager", "GetProjectListInCurrentFolder", "CreateProject">>,
             cur)

CallOpenProject(t) ==
    /\ CanCall
    /\ \E name \in ProjectNames, pm \in AccessorOutcomes, pl \in AccessorOutcomes,
          projects \in ProjectLists, res \in BOOLEAN :
         CatalogCall(t, "open_project_tool",
                     [name |-> name, pm |-> pm, pl |-> pl, projects |-> projects],
                     open_project(handle, name, pm, pl, projects, res, page))
    /\ UNCHANGED <<handle, reconnected>>

CallCreateProject(t) ==
    /\ CanCall
    /\ \E name \in ProjectNames, pm \in AccessorOutcomes, pl \in AccessorOutcomes,
          projects \in ProjectLists, res \in BOOLEAN :
         CatalogCall(t, "create_project_tool",
                     [name |-> name, pm |-> pm, pl |-> pl, projects |-> projects],
                     create_project(handle, name, pm, pl, projects, res, page))
    /\ UNCHANGED <<handle, reconnected>>

\* ---- timecodes (utils/resolve_helpers.py) ----

\* strings are sequences of one-character strings here
DigitChars == <<"0", "1", "2", "3", "4", "5", "6", "7", "8", "9">>

\* str(n) of a natural number, character by character
RECURSIVE Digits(_)
Digits(n) ==
    IF n < 10 THEN <<DigitChars[n + 1]>>
    ELSE Digits(n \div 10) \o <<DigitChars[(n % 10) + 1]>>

\* f"{n:02d}" of a natural number
Pad2(n) == IF n < 10 THEN <<"0">> \o Digits(n) ELSE Digits(n)

\* an integer no float can hold, 10**309, by its digits
HugeInt == [type |-> "int", digits |-> <<"1">> \o [i \in 1..309 |-> "0"]]

\* the frame numbers and the integer frame rates of the calls
Frames ==
    {IntVal(n) : n \in {0, 1, 23, 24, 119, 1439, 3600, 3661, 86399, 360000}}
        \cup {HugeInt}
FrameRates == {1, 24, 120}

\* format_timecode(frame, fps), resolve_helpers.py:280-300. frame / fps is a
\* float division: exact enough for the floor of these frame numbers, and an
\* OverflowError for an integer beyond the floats, which the except clause
\* turns into "Frame <frame>"
format_timecode(frame, fps) ==
    IF frame = HugeInt
    THEN <<"F", "r", "a", "m", "e", " ">> \o frame.digits
    ELSE LET total_seconds == frame.n \div fps
             hours == total_seconds \div 3600
             minutes == (total_seconds % 3600) \div 60
             seconds == total_seconds % 60
             frames == frame.n % fps
         IN  Pad2(hours) \o <<":">> \o Pad2(minutes) \o <<":">> \o Pad2(seconds)
                 \o <<":">> \o Pad2(frames)

\* timecode.split(":")
RECURSIVE Split(_, _)
Split(chars, cur) ==
    IF chars = << >> THEN <<cur>>
    ELSE IF Head(chars) = ":" THEN <<cur>> \o Split(Tail(chars), << >>)
    ELSE Split(Tail(chars), Append(cur, Head(chars)))

\* int(chars) succeeds: the text is made of decimal digits
IsNumber(chars) ==
    /\ chars # << >>
    /\ \A i \in 1..Len(chars) : \E d \in 1..10 : DigitChars[d] = chars[i]

\* int(chars) of a text of decimal digits
RECURSIVE IntOf(_)
IntOf(chars) ==
    IF chars = << >> THEN 0
    ELSE IntOf(SubSeq(chars, 1, Len(chars) - 1)) * 10
             + ((CHOOSE d \in 1..10 : DigitChars[d] = chars[Len(chars)]) - 1)

\* parse_timecode(timecode, fps), resolve_helpers.py:302-327: four fields
\* separated by ":" or a number of seconds; whatever raises, and a text with
\* ":" that has not four fields, gives 0
parse_timecode(timecode, fps) ==
    IF \E i \in 1..Len(timecode) : timecode[i] = ":"
    THEN LET parts == Split(timecode, << >>) IN
         IF Len(parts) = 4 /\ \A i \in 1..4 : IsNumber(parts[i])
         THEN IntVal((IntOf(parts[1]) * 3600 + IntOf(parts[2]) * 60 + IntOf(parts[3])) * fps
                         + IntOf(parts[4]))
         ELSE IntVal(0)
    ELSE IF IsNumber(timecode) THEN IntVal(IntOf(timecode) * fps)
    ELSE IntVal(0)

\* the texts given to parse_timecode: the formatted frames and a few others
Timecodes ==
    {format_timecode(frame, fps) : frame \in Frames, fps \in FrameRates}
        \cup {<<"1", "2">>, <<"0", "0", ":", "0", "1">>, <<"a", ":", "b", ":", "c", ":", "d">>}

CallFormatTimecode(t) ==
    /\ CanCall
    /\ \E frame \in Frames, fps \in FrameRates :
         UtilityCall(t, "format_timecode", [frame |-> frame, fps |-> fps],
                     ReturnAs("str", format_timecode(frame, fps)), << >>)

CallParseTimecode(t) ==
    /\ CanCall
    /\ \E timecode \in Timecodes, fps \in FrameRates :
         UtilityCall(t, "parse_timecode", [timecode |-> timecode, fps |-> fps],
                     ReturnAs("int", parse_timecode(timecode, fps)), << >>)

Next ==
    \/ Register
    \/ \E t \in Threads :
        \/ SeqInvoke(t)
        \/ SeqCallHandled(t)
        \/ SeqCallValidated(t)
        \/ SeqCallHandledValidating(t)
        \/ CallSwitchPage(t)
        \/ CallReconnect(t)
        \/ CallListProjects(t)
        \/ CallCloseProject(t)
        \/ CallAddFusionNode(t)
        \/ CallFairlightStatus(t)
        \/ CallCacheSetter(t)
        \/ CallAddKeyframe(t)
        \/ CallConstructor(t)
        \/ CallHelper(t)
        \/ CallValidateRange(t)
        \/ CallValidateChoice(t)
        \/ CallInspection(t)
        \/ CallOpenProject(t)
        \/ CallCreateProject(t)
        \/ CallFormatTimecode(t)
        \/ CallParseTimecode(t)
        \/ SwitchPage(t)
        \/ Execute(t)
        \/ Restore(t)
        \/ Complete(t)

Spec == Init /\ [][Next]_vars

\* calls of several callers overlap: ensure_page takes no lock
NextConc ==
    \/ Register
    \/ \E t \in Threads :
        \/ Invoke(t)
        \/ CallHandled(t)
        \/ CallValidated(t)
        \/ CallHandledValidating(t)
        \/ SwitchPage(t)
        \/ Execute(t)
        \/ Restore(t)
        \/ Complete(t)

SpecConc == Init /\ [][NextConc]_vars

\* ------------------------------------------------------------------ claims
HasKey(d, k) == k \in DOMAIN d
\* a result that is a response envelope reporting a failure
IsFailureEnvelope(o) ==
    /\ o.kind = "return"
    /\ HasKey(o.val, "success") /\ o.val["success"] = FALSE
    /\ HasKey(o.val, "message")
\* a result that is the guard's own error mapping
IsErrorResult(o) == o.kind = "return" /\ HasKey(o.val, "error")
IsGuard(t) == kind[t] = "guard"
\* the first OpenPage of the invocation was issued and ended as r
FirstOpen(t, r) == Len(opens[t]) >= 1 /\ opens[t][1].res = r
\* the restoring OpenPage of the invocation was issued and succeeded
RestoreOk(ops) == Len(ops) = 2 /\ ops[2].res = "ok"

\* C1 (as stated): whatever the wrapped function did, if the initial
\* OpenPage succeeded, the host's page when the guard returns is the page
\* GetCurrentPage reported at the start of the invocation.
C1_AsStated ==
    \A t \in Threads :
        (IsGuard(t) /\ pc[t] = "done" /\ FirstOpen(t, "ok")) => page = current_page[t]

\* C1 (amended): if the initial OpenPage succeeded then, whatever the wrapped
\* function did, the guard issues exactly one restoring OpenPage with the page
\* read at the start before it returns, and if that call succeeds the host's
\* page when the guard returns is the page read at the start.
C1_RestoredWhenRestoreSucceeds ==
    \A t \in Threads :
        (IsGuard(t) /\ pc[t] = "done" /\ FirstOpen(t, "ok")) =>
            /\ Len(opens[t]) = 2
            /\ opens[t][2].arg = current_page[t]
            /\ (opens[t][2].res = "ok" => page = current_page[t])

C1_Witness ==
    \E t \in Threads :
        /\ IsGuard(t) /\ pc[t] = "done" /\ FirstOpen(t, "ok") /\ RestoreOk(opens[t])
        /\ body[t].kind = "raise" /\ ~handled[t]
        /\ page = current_page[t] /\ page # Lower(page_name[t])

\* C2: a guarded operation that requires "fusion", called on page "edit",
\* whose switch succeeds and whose function raises a generic exception, ends
\* on page "edit" and returns an envelope with error_code INTERNAL_ERROR.
\* The scenario is read with a host that performs every OpenPage it is asked
\* for, the restoring one included (a failing restore is the case of C1).
C2_GenericExceptionScenario ==
    \A t \in Threads :
        (/\ IsGuard(t) /\ pc[t] = "done"
         /\ page_name[t] = "fusion" /\ startPage[t] = "edit" /\ FirstOpen(t, "ok")
         /\ \A i \in 1..Len(opens[t]) : opens[t][i].res = "ok"
         /\ body[t].kind = "raise" /\ body[t].cls = "RuntimeError") =>
            /\ page = "edit"
            /\ result[t].kind = "return"
            /\ HasKey(result[t].val, "error_code")
            /\ result[t].val["error_code"] = "INTERNAL_ERROR"

\* a guarded invocation between its read of the page and its return
GuardInFlight(t) == IsGuard(t) /\ pc[t] \in {"checked", "ready", "executed"}

\* C3: at most one guarded invocation is between its read of the current
\* page and its return at any time.
C3_OneGuardedInFlight ==
    \A s \in Threads, t \in Threads :
        s # t => ~(GuardInFlight(s) /\ GuardInFlight(t))

\* C4: when the page read differs from the required page and OpenPage(required)
\* reports failure, the guard has returned an error result, the wrapped
\* function was not invoked and no further OpenPage was issued.
C4_FailedSwitchStops ==
    \A t \in Threads :
        (IsGuard(t) /\ FirstOpen(t, "fail")) =>
            /\ pc[t] = "done"
            /\ IsErrorResult(result[t])
            /\ calls[t] = 0
            /\ Len(opens[t]) = 1

C4_Witness ==
    \E t \in Threads :
        /\ IsGuard(t) /\ pc[t] = "done" /\ FirstOpen(t, "fail")
        /\ ~SamePage(current_page[t], page_name[t])
        /\ IsErrorResult(result[t]) /\ calls[t] = 0

\* C5: when the host handle is absent or GetCurrentPage raises, the guarded
\* invocation has ended with an error result, without invoking the wrapped
\* function and without any OpenPage call.
C5_NoHandleOrReadRaises ==
    \A t \in Threads :
        (IsGuard(t) /\ (resolve[t] = None \/ read[t] = "raise")) =>
            /\ pc[t] = "done"
            /\ IsErrorResult(result[t])
            /\ calls[t] = 0
            /\ opens[t] = << >>

C5_Witness ==
    \E t \in Threads :
        /\ IsGuard(t) /\ pc[t] = "done" /\ resolve[t] # None /\ read[t] = "raise"
        /\ IsErrorResult(result[t]) /\ calls[t] = 0 /\ opens[t] = << >>

\* C6: every result the guard or validate_params produces itself on a failure
\* path (handle not found, page read raised, switch failed, parameter
\* rejected) is an envelope with success = false and a message.
C6_FailuresAreEnvelopes ==
    \A t \in Threads :
        (/\ pc[t] = "done"
         /\ \/ IsGuard(t) /\ path[t] \in {"no_resolve", "read_raised", "switch_failed"}
            \/ kind[t] = "validate" /\ calls[t] = 0) =>
            IsFailureEnvelope(result[t])

\* C7: when the function the guard wraps returns normally, the guard returns
\* exactly that value, with or without a page switch and however the
\* restoring OpenPage ended.
C7_ReturnValuePassedThrough ==
    \A t \in Threads :
        (IsGuard(t) /\ pc[t] = "done" /\ calls[t] = 1 /\ WrappedOutcome(t).kind = "return") =>
            result[t] = WrappedOutcome(t)

C7_Witness ==
    \E t \in Threads :
        /\ IsGuard(t) /\ pc[t] = "done" /\ calls[t] = 1
        /\ body[t].kind = "return"
        /\ Len(opens[t]) = 2 /\ opens[t][2].res = "raise"
        /\ result[t] = body[t]

\* C8: when the page read already equals the required page ignoring case, the
\* guard issues no OpenPage in that invocation, before or after the function.
C8_NoOpenWhenOnPage ==
    \A t \in Threads :
        (IsGuard(t) /\ current_page[t] # None
         /\ Lower(current_page[t]) = Lower(page_name[t])) => opens[t] = << >>

C8_Witness ==
    \E t \in Threads :
        /\ IsGuard(t) /\ pc[t] = "done" /\ calls[t] = 1
        /\ page_name[t] = "Fusion" /\ current_page[t] = "fusion"
        /\ opens[t] = << >>

\* two guarded invocations run one after the other with different required
\* pages: prev is the first, caller t is running the second
SecondAfterFirst(t) ==
    /\ IsGuard(t) /\ prev.valid
    /\ Lower(prev.page_name) # Lower(page_name[t])
    /\ read[t] = "ok"

\* every restoring OpenPage among the calls ops succeeded
NoRestoreFailed(ops) == Len(ops) = 2 => ops[2].res = "ok"

\* C9 (as stated): the second invocation reads the page that was active
\* before the first, and after both the host's page is that page.
C9_AsStated ==
    \A t \in Threads :
        SecondAfterFirst(t) =>
            /\ current_page[t] = prev.startPage
            /\ (pc[t] = "done" => page = prev.startPage)

\* C9 (amended): the same, provided every restoring OpenPage the two
\* invocations issued succeeded.
C9_NoLeakWhenRestoresSucceed ==
    \A t \in Threads :
        (SecondAfterFirst(t) /\ NoRestoreFailed(prev.opens)) =>
            /\ current_page[t] = prev.startPage
            /\ ((pc[t] = "done" /\ NoRestoreFailed(opens[t])) => page = prev.startPage)

C9_Witness ==
    \E t \in Threads :
        /\ SecondAfterFirst(t) /\ pc[t] = "done"
        /\ RestoreOk(prev.opens) /\ RestoreOk(opens[t])
        /\ page = prev.startPage

\* C10: whatever exception the function under handle_resolve_errors raises,
\* the wrapper returns an envelope with success = false and a non-empty
\* message, and no exception leaves the wrapper.
C10_HandlerAlwaysEnvelope ==
    \A t \in Threads :
        (kind[t] = "handler" /\ pc[t] = "done" /\ body[t].kind = "raise") =>
            /\ IsFailureEnvelope(result[t])
            /\ result[t].val["message"] # << >>

\* C11: a validation failure signalled by a validator of validation.py inside
\* a function wrapped by handle_resolve_errors is returned as an envelope with
\* error_code VALIDATION_ERROR whose message is the validator's message.
C11_ValidatorFailureIsValidationError ==
    \A t \in Threads :
        (/\ kind[t] = "handler" /\ pc[t] = "done" /\ path[t] = "validating"
         /\ body[t].kind = "raise") =>
            /\ IsFailureEnvelope(result[t])
            /\ HasKey(result[t].val, "error_code")
            /\ result[t].val["error_code"] = "VALIDATION_ERROR"
            /\ result[t].val["message"] = body[t].msg

\* the classes handle_resolve_errors has a clause of its own for
ClassifiedCode(cls) ==
    CASE IsInstance(cls, "ConnectionError") -> "CONNECTION_ERROR"
      [] IsInstance(cls, "ValidationError") -> "VALIDATION_ERROR"
      [] IsInstance(cls, "OperationError") -> "OPERATION_ERROR"
      [] OTHER -> "INTERNAL_ERROR"

CatalogDone(t) == kind[t] = "catalog" /\ pc[t] = "done"
\* a result that is a dict with the key k
IsDictWith(o, k) == o.kind = "return" /\ o.type = "dict" /\ HasKey(o.val, k)
\* every OpenPage among the calls ops succeeded
AllOpensOk(ops) == \A i \in 1..Len(ops) : ops[i].res = "ok"

\* C13: with a null host handle, every catalog operation that needs the host
\* returns, without raising, a result with success = false and error_code
\* CONNECTION_ERROR.
C13_NullHandleIsConnectionError ==
    \A t \in Threads :
        (CatalogDone(t) /\ handle = None /\ op[t].name # "reconnect_to_resolve") =>
            /\ IsDictWith(result[t], "success") /\ result[t].val["success"] = FALSE
            /\ IsDictWith(result[t], "error_code")
            /\ result[t].val["error_code"] = "CONNECTION_ERROR"

\* C14: no invocation of a registered tool or resource ends by raising,
\* whatever the host does (an accessor raises or returns null, the page read
\* of a page-switching tool raises).
C14_NoOperationRaises ==
    \A t \in Threads : CatalogDone(t) => result[t].kind = "return"

\* the operations that switch the page inline
InlineSwitchers == {"add_fusion_node", "resolve://fairlight/status"}

\* C15: an operation that switches the page inline leaves the host on the
\* page it was on before the call, on every exit path.  The claim is read
\* with a host that performs every OpenPage it is asked for.
C15_InlineSwitchRestores ==
    \A t \in Threads :
        (CatalogDone(t) /\ op[t].name \in InlineSwitchers /\ AllOpensOk(opens[t])) =>
            page = startPage[t]

\* C16: every OpenPage request issued by switch_page or by the guard carries
\* an identifier of the closed set of pages.
C16_OpenPageArgumentsValid ==
    \A t \in Threads :
        (IsGuard(t) \/ (kind[t] = "catalog" /\ op[t].name = "switch_page")) =>
            \A i \in 1..Len(opens[t]) : opens[t][i].arg \in ValidPages

\* C17: a guarded invocation issues OpenPage(required page) at most once and
\* the restoring OpenPage(page read) at most once, in that order and the
\* second only after the first succeeded, so at most two OpenPage calls; a
\* switch_page invocation issues at most one OpenPage call.
C17_NoSwitchRetried ==
    \A t \in Threads :
        /\ IsGuard(t) =>
              /\ Len(opens[t]) <= 2
              /\ (Len(opens[t]) >= 1 => opens[t][1].arg = page_name[t])
              /\ (Len(opens[t]) = 2 =>
                     opens[t][1].res = "ok" /\ opens[t][2].arg = current_page[t])
        /\ (kind[t] = "catalog" /\ op[t].name = "switch_page") => Len(opens[t]) <= 1

C17_Witness ==
    \E t \in Threads :
        /\ CatalogDone(t) /\ op[t].name = "switch_page"
        /\ Len(opens[t]) = 1 /\ opens[t][1].res = "fail"
        /\ result[t].val = <<"Failed to switch to ", op[t].arg, " page">>
        /\ prev.valid /\ Len(prev.opens) = 2 /\ prev.opens[2].res = "fail"

\* the argument of the validating action of caller t fails the check the
\* action makes without the host's help
StaticallyInvalid(t) ==
    IF op[t].name \in CacheSetters THEN op[t].arg \notin SetterChoices(op[t].name)
    ELSE IF op[t].name = "add_keyframe"
    THEN op[t].arg.property_name \notin KeyframeableProperties
    ELSE FALSE

\* C18: in the catalog actions that validate their arguments, an invocation
\* with an invalid argument calls no host accessor or mutator and reports the
\* validation failure, whatever the state of the host.
C18_ValidationBeforeHost ==
    \A t \in Threads :
        (CatalogDone(t) /\ handle # None /\ StaticallyInvalid(t)) =>
            /\ trace[t] = << >>
            /\ Head(result[t].val) \in {"Error: Invalid ",
                                         "Error: Invalid property name. Must be one of: "}

\* a result that says the server is not connected
SaysNotConnected(o) ==
    /\ o.kind = "return"
    /\ IF o.type = "dict"
       THEN HasKey(o.val, "error") /\ o.val["error"] = <<"Not connected to DaVinci Resolve">>
       ELSE o.val = NotConnected

\* C19: once reconnect_to_resolve has reported success, no operation answers
\* "Not connected": the handle obtained is the one the operations use.
C19_ReconnectRepublishes ==
    \A t \in Threads :
        (CatalogDone(t) /\ reconnected /\ op[t].name # "reconnect_to_resolve") =>
            ~SaysNotConnected(result[t])

\* C20: after all register_* functions have run, every tool name and every
\* resource path is bound by exactly one registration.
C20_NamesUnique ==
    Started =>
        \A i \in 1..Len(Catalog(nreg)) : Bindings(Catalog(nreg), Catalog(nreg)[i]) = 1

\* a call of the utility function name by caller t has ended
UtilityDone(t, name) == kind[t] = "utility" /\ pc[t] = "done" /\ op[t].name = name

\* C21: whatever extra keywords are passed to success, error and info, the
\* returned mapping keeps the constructor's value of success (true for
\* success and info, false for error), the given message, and for info the
\* type "info".
C21_ExtraKeepsCoreKeys ==
    \A t \in Threads : \A ctor \in Constructors :
        UtilityDone(t, ctor) =>
            /\ result[t].val["success"] = (ctor # "error")
            /\ result[t].val["message"] = op[t].arg.message
            /\ (ctor = "info" => result[t].val["type"] = "info")

\* the accessor whose null result ends the chain of helper name in host
\* state hs, and the message the helper names it with (None: no accessor of
\* the chain returns null)
NullAccessor(name, hs) ==
    CASE hs = "no_pm" -> "GetProjectManager"
      [] hs = "no_project" -> "GetCurrentProject"
      [] hs = "no_timeline" /\ name = "get_current_timeline" -> "GetCurrentTimeline"
      [] hs = "no_media_pool" /\ name = "get_media_pool" -> "GetMediaPool"
      [] OTHER -> None

NullMessage(acc) ==
    CASE acc = "GetProjectManager" -> <<"Failed to get Project Manager">>
      [] acc = "GetCurrentProject" -> <<"No project currently open">>
      [] acc = "GetCurrentTimeline" -> <<"No timeline currently active">>
      [] OTHER -> <<"Failed to get Media Pool">>

\* C22: get_current_project, get_current_timeline and get_media_pool return
\* a non-null host object or raise; a null handle raises a connection error
\* before any host call, and otherwise the first accessor of the chain that
\* returns null raises an operation error whose message names it, and it is
\* the last host method called.
C22_HelpersReturnObjectOrRaise ==
    \A t \in Threads : \A name \in Helpers :
        UtilityDone(t, name) =>
            /\ result[t].kind = "return" => result[t].val # None
            /\ handle = None =>
                  /\ result[t].kind = "raise" /\ result[t].cls = "ConnectionError"
                  /\ trace[t] = << >>
            /\ (handle # None /\ NullAccessor(name, op[t].arg) # None) =>
                  /\ result[t] = Raise("OperationError",
                                       NullMessage(NullAccessor(name, op[t].arg)))
                  /\ trace[t][Len(trace[t])] = NullAccessor(name, op[t].arg)

C22_Witness ==
    \E t \in Threads :
        /\ UtilityDone(t, "get_current_timeline") /\ handle # None
        /\ op[t].arg = "no_project"
        /\ result[t] = Raise("OperationError", <<"No project currently open">>)
        /\ trace[t] = <<"GetCurrentPage", "GetProjectManager", "GetCurrentProject">>

\* value is a number with lo <= value <= hi
InRange(value, lo, hi) == value.type = "int" /\ lo <= value.n /\ value.n <= hi

\* C23: validate_range(value, min, max) succeeds exactly when value is a
\* number with min <= value <= max.
C23_RangeInclusive ==
    \A t \in Threads :
        UtilityDone(t, "validate_range") =>
            (result[t].kind = "return"
                <=> InRange(op[t].arg.value, op[t].arg.min, op[t].arg.max))

\* the members of the list ch
Members(ch) == {ch[i] : i \in 1..Len(ch)}

\* C24: in its default mode validate_choice succeeds exactly when some member
\* of the list equals the value ignoring case; the string returned is a
\* member of the list, equal to the value ignoring case, and validating it
\* again returns it.
C24_ChoiceCanonical ==
    \A t \in Threads :
        UtilityDone(t, "validate_choice") =>
            LET x == op[t].arg.value
                ch == op[t].arg.choices
            IN  /\ result[t].kind = "return" <=>
                       (x.type = "str" /\ \E c \in Members(ch) : Lower(c) = Lower(x.s))
                /\ result[t].kind = "return" =>
                       /\ result[t].val \in Members(ch)
                       /\ Lower(result[t].val) = Lower(x.s)
                       /\ validate_choice(StrVal(result[t].val), ch, "value", FALSE)
                              = Return(result[t].val)

C24_Witness ==
    \E t \in Threads :
        /\ UtilityDone(t, "validate_choice")
        /\ op[t].arg.value = StrVal("auto") /\ op[t].arg.choices = <<"Auto", "On", "Off">>
        /\ result[t] = Return("Auto")

\* caller t is running an operation registered with the guard on it
IsRegisteredGuard(t) == IsGuard(t) /\ op[t].name # None

\* C25: for an operation registered with ensure_page on it, when the server
\* holds a connected handle and the page read and the page switch do not
\* fail, the guard invokes the handler body exactly once before it returns.
C25_RegisteredGuardExecutes ==
    \A t \in Threads :
        (/\ IsRegisteredGuard(t) /\ pc[t] = "done" /\ handle # None
         /\ read[t] \notin {"raise", "nonstr"} /\ AllOpensOk(opens[t])) =>
            calls[t] = 1

\* the wrapped function of caller t's guarded invocation is executing: the
\* guard is at line 52, between its switch and its restore
Executing(t) == IsGuard(t) /\ pc[t] = "ready"

\* C26: while the wrapped function of a guarded operation is executing, the
\* host's active page is the operation's required page, also when guarded
\* invocations with different required pages are interleaved.
C26_RequiredPageWhileExecuting ==
    \A t \in Threads :
        (Executing(t) /\ read[t] = "ok") => Lower(page) = Lower(page_name[t])

\* C27: no exception of class Exception leaves the guard: whether
\* GetCurrentPage raises or returns a non-string, OpenPage raises on the
\* switch, the wrapped function raises or OpenPage raises on the restore, the
\* guard returns a value.
C27_GuardCatchesExceptions ==
    \A t \in Threads :
        (IsGuard(t) /\ pc[t] = "done") =>
            \/ result[t].kind = "return"
            \/ /\ result[t] = WrappedOutcome(t)
               /\ ~IsInstance(result[t].cls, "Exception")

C27_Witness ==
    \E t \in Threads :
        /\ IsGuard(t) /\ pc[t] = "done" /\ ~handled[t]
        /\ body[t] = Raise("RuntimeError", <<"boom">>)
        /\ Len(opens[t]) = 2 /\ opens[t][2].res = "raise"
        /\ result[t] = PageManagementError(<<"boom">>)

\* the accessors of the catalog's fixed chains
AllowList ==
    {"GetProjectManager", "GetCurrentProject", "GetCurrentTimeline", "GetMediaPool",
     "GetCurrentPage", "GetProjectListInCurrentFolder"}

\* C28: the inspection operations call on the host graph only accessor names
\* of a fixed allow-list: no path part and no method name given by the
\* caller outside the list is called on a host object.
C28_InspectionCallsAllowListOnly ==
    \A t \in Threads :
        (CatalogDone(t) /\ op[t].name \in InspectionTools) =>
            \A i \in 1..Len(trace[t]) : trace[t][i] \in AllowList

\* the host calls that change the project database
MutatingCalls == {"LoadProject", "CreateProject", "DeleteProject", "Quit"}
\* the host methods the call of t invoked that change the project database
Mutations(t) == {trace[t][i] : i \in 1..Len(trace[t])} \cap MutatingCalls
\* the call of t was given a non-empty name and the host reported its list
NameListed(t) ==
    /\ handle # None /\ op[t].arg.name # ""
    /\ op[t].arg.pm = "ok" /\ op[t].arg.pl = "ok"

\* C29: open_project calls LoadProject only for a non-empty name that is in
\* the host's project list, create_project calls CreateProject only for a
\* non-empty name that is not in it, and in every rejected case (null
\* handle, empty name, no project manager, name absent resp. present) no
\* mutating host call is made.
C29_ProjectCallsOnlyWhenChecked ==
    \A t \in Threads :
        /\ (CatalogDone(t) /\ op[t].name = "open_project_tool") =>
               Mutations(t) =
                   IF NameListed(t) /\ InList(op[t].arg.name, op[t].arg.projects)
                   THEN {"LoadProject"} ELSE {}
        /\ (CatalogDone(t) /\ op[t].name = "create_project_tool") =>
               Mutations(t) =
                   IF NameListed(t) /\ ~InList(op[t].arg.name, op[t].arg.projects)
                   THEN {"CreateProject"} ELSE {}

\* a project that is in the host's list was opened with LoadProject
C29_Witness ==
    \E t \in Threads :
        /\ CatalogDone(t) /\ op[t].name = "open_project_tool" /\ NameListed(t)
        /\ op[t].arg.name = "Project 1" /\ InList("Project 1", op[t].arg.projects)
        /\ Mutations(t) = {"LoadProject"}

\* C30: timecodes round-trip: for every integer frame rate fps >= 1 and every
\* frame number frame >= 0, parse_timecode(format_timecode(frame, fps), fps)
\* is frame.
C30_TimecodeRoundTrip ==
    \A t \in Threads :
        UtilityDone(t, "parse_timecode") =>
            \A frame \in Frames :
                op[t].arg.timecode = format_timecode(frame, op[t].arg.fps) =>
                    result[t].val = frame

\* the round trip of the frame numbers a float holds exactly
C30_SmallFramesRoundTrip ==
    \A t \in Threads :
        UtilityDone(t, "parse_timecode") =>
            \A frame \in Frames \ {HugeInt} :
                op[t].arg.timecode = format_timecode(frame, op[t].arg.fps) =>
                    result[t].val = frame

====
